---------------------------- MODULE Spec2Model ----------------------------
(***************************************************************************)
(* Model of crawl.py, the Google Sites crawler of the SPC Student IT Club. *)
(*                                                                         *)
(* Strings are sequences of atoms.  An atom is a piece of text that the    *)
(* code never looks inside: "/" "?" "#" are the one-character atoms the    *)
(* code splits on, ORIGIN and EXTERNAL are a scheme with its host, and the *)
(* other atoms are path segments or parts of one.  No atom contains        *)
(* "/", "?", "#" or ":" other than the ones named, so splitting, prefix    *)
(* tests and substring replacement on atoms agree with the same            *)
(* operations on characters.                                               *)
(***************************************************************************)
EXTENDS Naturals, Sequences, FiniteSets, TLC

(***************************************************************************)
(* Bounds of the model.                                                    *)
(***************************************************************************)
\* Invocations of main() that a behaviour may hold.
MaxRuns == 2
\* page.goto calls that may raise in one behaviour.
MaxFailures == 1
\* Chunks after the prefix in a generated URL or href (specification SpecFn).
MaxPathLen == 2

(***************************************************************************)
(* Text.                                                                   *)
(***************************************************************************)
ORIGIN == "https://sites.google.com"
EXTERNAL == "https://external.example"
\* The atoms that hold a scheme and a network location.
Schemes == {ORIGIN, EXTERNAL}

SLASH == "/"
QMARK == "?"
HASH == "#"

\* s.startswith(p)
StartsWith(s, p) ==
    /\ Len(p) <= Len(s)
    /\ SubSeq(s, 1, Len(p)) = p

\* s[i:], 1-based: what follows the first i atoms
Drop(s, i) == SubSeq(s, i + 1, Len(s))

\* s.split(sep)[0] for a one-atom separator
RECURSIVE SplitFirst(_, _)
SplitFirst(s, sep) ==
    IF s = <<>> \/ Head(s) = sep THEN <<>>
    ELSE <<Head(s)>> \o SplitFirst(Tail(s), sep)

\* what follows the first sep of s, or <<>> when s holds none
RECURSIVE AfterFirst(_, _)
AfterFirst(s, sep) ==
    IF s = <<>> THEN <<>>
    ELSE IF Head(s) = sep THEN Tail(s)
    ELSE AfterFirst(Tail(s), sep)

\* sep in s
Contains(s, sep) == \E i \in 1..Len(s) : s[i] = sep

\* s.split(sep): the sequence of the pieces between the separators
RECURSIVE Split(_, _)
Split(s, sep) ==
    IF ~Contains(s, sep) THEN <<s>>
    ELSE <<SplitFirst(s, sep)>> \o Split(AfterFirst(s, sep), sep)

\* sep.join(parts)
RECURSIVE Join(_, _)
Join(parts, sep) ==
    IF parts = <<>> THEN <<>>
    ELSE IF Len(parts) = 1 THEN parts[1]
    ELSE parts[1] \o <<sep>> \o Join(Tail(parts), sep)

\* s.replace(old, new): every non-overlapping occurrence, left to right
RECURSIVE Replace(_, _, _)
Replace(s, old, new) ==
    IF s = <<>> THEN <<>>
    ELSE IF StartsWith(s, old) THEN new \o Replace(Drop(s, Len(old)), old, new)
    ELSE <<Head(s)>> \o Replace(Tail(s), old, new)

\* s.lstrip(ch), s.rstrip(ch), s.strip(ch) for a one-atom ch
RECURSIVE LStrip(_, _)
LStrip(s, ch) ==
    IF s # <<>> /\ Head(s) = ch THEN LStrip(Tail(s), ch) ELSE s

RECURSIVE RStrip(_, _)
RStrip(s, ch) ==
    IF s # <<>> /\ s[Len(s)] = ch THEN RStrip(SubSeq(s, 1, Len(s) - 1), ch) ELSE s

Strip(s, ch) == RStrip(LStrip(s, ch), ch)

\* filter(None, parts): the non-empty pieces, in order
RECURSIVE FilterNonEmpty(_)
FilterNonEmpty(parts) ==
    IF parts = <<>> THEN <<>>
    ELSE IF Head(parts) = <<>> THEN FilterNonEmpty(Tail(parts))
    ELSE <<Head(parts)>> \o FilterNonEmpty(Tail(parts))

(***************************************************************************)
(* urllib.parse, for the URLs the model holds: a URL is absolute when its  *)
(* first atom is in Schemes, and is then followed by "/", "?", "#" or      *)
(* nothing (the network location ends there).  No atom is "." or "..",     *)
(* ";" or a second scheme, and no relative reference starts with "//".     *)
(***************************************************************************)
IsAbsolute(url) == url # <<>> /\ Head(url) \in Schemes

\* scheme and netloc of an absolute URL, <<>> of a relative reference
UrlOrigin(url) == IF IsAbsolute(url) THEN <<Head(url)>> ELSE <<>>

\* what follows scheme and netloc
UrlRest(url) == IF IsAbsolute(url) THEN Tail(url) ELSE url

\* urlparse(url).path
UrlPath(url) == SplitFirst(SplitFirst(UrlRest(url), HASH), QMARK)

\* urlparse(url).query
UrlQuery(url) == AfterFirst(SplitFirst(UrlRest(url), HASH), QMARK)

\* urlparse(url).fragment
UrlFragment(url) == AfterFirst(UrlRest(url), HASH)

\* urlunparse: an empty query or fragment is written without its "?" or "#"
UrlUnparse(origin, path, query, fragment) ==
    origin \o path
        \o (IF query = <<>> THEN <<>> ELSE <<QMARK>> \o query)
        \o (IF fragment = <<>> THEN <<>> ELSE <<HASH>> \o fragment)

\* the segments urljoin joins for a reference whose path is relative:
\* base_parts + path.split('/') with the empty inner segments filtered out
MergedSegments(bpath, path) ==
    LET parts == Split(bpath, SLASH)
        base_parts == IF parts[Len(parts)] # <<>>
                      THEN SubSeq(parts, 1, Len(parts) - 1) ELSE parts
        segments == base_parts \o Split(path, SLASH)
        n == Len(segments)
    IN  IF n <= 2 THEN segments
        ELSE <<segments[1]>> \o FilterNonEmpty(SubSeq(segments, 2, n - 1))
                 \o <<segments[n]>>

\* urljoin(base, url)
urljoin(base, url) ==
    IF base = <<>> THEN url
    ELSE IF url = <<>> THEN base
    ELSE IF IsAbsolute(url)
    THEN UrlUnparse(UrlOrigin(url), UrlPath(url), UrlQuery(url), UrlFragment(url))
    ELSE LET path == UrlPath(url)
             query == UrlQuery(url)
             fragment == UrlFragment(url)
             bpath == UrlPath(base)
         IN  IF path = <<>>
             THEN UrlUnparse(UrlOrigin(base), bpath,
                             IF query = <<>> THEN UrlQuery(base) ELSE query,
                             fragment)
             ELSE LET segments == IF Head(path) = SLASH
                                  THEN Split(path, SLASH)
                                  ELSE MergedSegments(bpath, path)
                      resolved == Join(segments, SLASH)
                  IN  UrlUnparse(UrlOrigin(base),
                                 IF resolved = <<>> THEN <<SLASH>> ELSE resolved,
                                 query, fragment)

(***************************************************************************)
(* crawl.py: constants and the URL classifier.                             *)
(***************************************************************************)
BASE_URL == <<ORIGIN, SLASH, "view", SLASH, "spc-student-it-club">>
START_PAGE == BASE_URL \o <<SLASH, "home">>

\* the literal that url_to_filename removes from the path
SITE_PATH == <<SLASH, "view", SLASH, "spc-student-it-club">>

\* is_internal(url)
is_internal(url) == StartsWith(url, BASE_URL)

\* url_to_filename(url)
url_to_filename(url) ==
    LET path1 == UrlPath(url)
        path2 == Replace(path1, SITE_PATH, <<>>)
        path3 == Replace(Strip(path2, SLASH), <<SLASH>>, <<"_">>)
        path4 == IF path3 = <<>> THEN <<"home">> ELSE path3
    IN  path4 \o <<".html">>

\* the resolved href with its query string and fragment left on
Normalize_unstripped(current_url, href) == urljoin(current_url, href)

\* urljoin(current_url, href).split("?")[0].split("#")[0]
Normalize(current_url, href) ==
    SplitFirst(SplitFirst(urljoin(current_url, href), QMARK), HASH)


(***************************************************************************)
(* The URLs and hrefs that specification SpecFn hands to the pure          *)
(* functions: a prefix, up to MaxPathLen chunks, a query and fragment.     *)
(***************************************************************************)
Chunks == {<<SLASH>>, <<"a">>, <<"_">>, <<"home">>, SITE_PATH}

RECURSIVE ChunkPaths(_)
ChunkPaths(n) ==
    IF n = 0 THEN {<<>>}
    ELSE LET shorter == ChunkPaths(n - 1)
         IN  shorter \cup {p \o c : p \in shorter, c \in Chunks}

Suffixes == {<<>>, <<QMARK, "ref=1">>, <<HASH, "top">>, <<QMARK, "ref=1", HASH, "top">>}

\* an absolute URL's network location ends at "/", "?", "#" or the end, and
\* a relative reference does not start with "//"
WellFormed(prefix, path) ==
    /\ prefix \in {<<ORIGIN>>, <<EXTERNAL>>} => (path = <<>> \/ Head(path) = SLASH)
    /\ prefix = <<>> => ~StartsWith(path, <<SLASH, SLASH>>)

GenHrefs ==
    {prefix \o path \o suffix :
        <<prefix, path, suffix>> \in
            {t \in {BASE_URL, <<ORIGIN>>, <<EXTERNAL>>, <<>>}
                       \X ChunkPaths(MaxPathLen) \X Suffixes :
                WellFormed(t[1], t[2])}}

\* the URLs that is_internal accepts after normalisation
GenInternalUrls == {BASE_URL \o path : path \in ChunkPaths(MaxPathLen)}

\* the pages a reference is resolved against
GenBases == {START_PAGE, BASE_URL, BASE_URL \o <<SLASH, "a", SLASH, "home">>,
             BASE_URL \o <<SLASH, "a", SLASH>>}


(***************************************************************************)
(* Markup.  An html string is a sequence of tokens: the start and end tag  *)
(* of the head section, and elements (an element with its attributes and   *)
(* text is one token).  BeautifulSoup(html, "html.parser") builds a soup;  *)
(* str(soup) writes it back.                                               *)
(***************************************************************************)
Token(kind, tag, has_href, href, rel, string) ==
    [kind |-> kind, tag |-> tag, has_href |-> has_href, href |-> href,
     rel |-> rel, string |-> string]

HeadOpen == Token("open", "head", FALSE, <<>>, "", "")
HeadClose == Token("close", "head", FALSE, <<>>, "", "")
\* <a href=...>
Anchor(href) == Token("elem", "a", TRUE, href, "", "")
\* <a name=...>, an anchor with no href
NamedAnchor == Token("elem", "a", FALSE, <<>>, "", "")
\* <link rel="stylesheet" href=...>
StylesheetLink(href) == Token("elem", "link", TRUE, href, "stylesheet", "")
\* <link rel="icon" href=...>
IconLink(href) == Token("elem", "link", TRUE, href, "icon", "")
\* <p>text</p>
Para(text) == Token("elem", "p", FALSE, <<>>, "", text)

\* the elements of a token sequence, in order
RECURSIVE Elements(_)
Elements(toks) ==
    IF toks = <<>> THEN <<>>
    ELSE IF Head(toks).kind = "elem" THEN <<Head(toks)>> \o Elements(Tail(toks))
    ELSE Elements(Tail(toks))

\* the index of the first token of toks equal to t, 0 when there is none
RECURSIVE IndexOf(_, _)
IndexOf(toks, t) ==
    IF toks = <<>> THEN 0
    ELSE IF Head(toks) = t THEN 1
    ELSE LET i == IndexOf(Tail(toks), t) IN IF i = 0 THEN 0 ELSE i + 1

\* BeautifulSoup(html, "html.parser"): the elements before the head, the
\* head's children and the elements after it.  A head that is never closed
\* holds everything that follows; an end tag with no start tag is dropped.
BeautifulSoup(html) ==
    LET i == IndexOf(html, HeadOpen)
        rest == Drop(html, i)
        j == IndexOf(rest, HeadClose)
    IN  IF i = 0
        THEN [before |-> Elements(html), has_head |-> FALSE,
              head |-> <<>>, after |-> <<>>]
        ELSE [before |-> Elements(SubSeq(html, 1, i - 1)), has_head |-> TRUE,
              head |-> Elements(IF j = 0 THEN rest ELSE SubSeq(rest, 1, j - 1)),
              after |-> IF j = 0 THEN <<>> ELSE Elements(Drop(rest, j))]

\* str(soup)
Str(soup) ==
    IF soup.has_head
    THEN soup.before \o <<HeadOpen>> \o soup.head \o <<HeadClose>> \o soup.after
    ELSE soup.before

\* the elements of a soup in document order, as find_all walks them
Descendants(soup) == soup.before \o soup.head \o soup.after

\* f applied to every element of a sequence
MapSeq(f(_), elems) == [i \in 1..Len(elems) |-> f(elems[i])]

\* the elements of a sequence that satisfy keep
RECURSIVE FilterSeq(_, _)
FilterSeq(keep(_), elems) ==
    IF elems = <<>> THEN <<>>
    ELSE IF keep(Head(elems)) THEN <<Head(elems)>> \o FilterSeq(keep, Tail(elems))
    ELSE FilterSeq(keep, Tail(elems))

\* soup.find_all("a", href=True) matches e
IsAnchorWithHref(e) == e.tag = "a" /\ e.has_href

\* soup.find_all("link", rel="stylesheet") matches e
IsStylesheetLink(e) == e.tag = "link" /\ e.rel = "stylesheet"

\* the href values of find_all("a", href=True), in document order
AnchorHrefs(html) ==
    LET anchors == FilterSeq(IsAnchorWithHref, Descendants(BeautifulSoup(html)))
    IN  [i \in 1..Len(anchors) |-> anchors[i].href]

(***************************************************************************)
(* Link Rewriter and Page Materializer.                                    *)
(***************************************************************************)
\* the rewriter that classifies the href as written, without resolving it
RewriteTag_raw(e, current_url) ==
    IF IsAnchorWithHref(e) /\ is_internal(e.href)
    THEN [e EXCEPT !.href = url_to_filename(Normalize(current_url, e.href))]
    ELSE e

\* the rewriter that writes the normalized URL back into every other anchor
RewriteTag_normalizes(e, current_url) ==
    IF IsAnchorWithHref(e)
    THEN IF is_internal(Normalize(current_url, e.href))
         THEN [e EXCEPT !.href = url_to_filename(Normalize(current_url, e.href))]
         ELSE [e EXCEPT !.href = Normalize(current_url, e.href)]
    ELSE e

\* the rewriter that also replaces the text of the anchors it rewrites
RewriteTag_retexts(e, current_url) ==
    IF IsAnchorWithHref(e) /\ is_internal(Normalize(current_url, e.href))
    THEN [e EXCEPT !.href = url_to_filename(Normalize(current_url, e.href)),
                   !.string = "local"]
    ELSE e

\* the body of the loop of rewrite_internal_links, for one element
RewriteTag(e, current_url) ==
    IF IsAnchorWithHref(e) /\ is_internal(Normalize(current_url, e.href))
    THEN [e EXCEPT !.href = url_to_filename(Normalize(current_url, e.href))]
    ELSE e

\* rewrite_internal_links(html, current_url)
rewrite_internal_links(html, current_url) ==
    LET soup == BeautifulSoup(html)
        Rw(e) == RewriteTag(e, current_url)
    IN  Str([soup EXCEPT !.before = MapSeq(Rw, soup.before),
                         !.head = MapSeq(Rw, soup.head),
                         !.after = MapSeq(Rw, soup.after)])

\* soup.new_tag("style") with its string set to the captured css
StyleTag(styles) == Token("elem", "style", FALSE, <<>>, "", styles)
\* soup.new_tag("base", href="https://sites.google.com")
BaseTag == Token("elem", "base", TRUE, <<ORIGIN>>, "", "")

\* link.decompose() for every stylesheet link
RemoveStylesheetLinks(soup) ==
    LET Keep(e) == ~IsStylesheetLink(e)
    IN  [soup EXCEPT !.before = FilterSeq(Keep, soup.before),
                     !.head = FilterSeq(Keep, soup.head),
                     !.after = FilterSeq(Keep, soup.after)]

\* the append that adds the style block to a document with no head as well
AppendStyle_always(soup, styles) ==
    IF soup.has_head THEN [soup EXCEPT !.head = Append(soup.head, StyleTag(styles))]
    ELSE [soup EXCEPT !.before = Append(soup.before, StyleTag(styles))]

\* if soup.head: soup.head.append(style_tag)
AppendStyle(soup, styles) ==
    IF soup.has_head THEN [soup EXCEPT !.head = Append(soup.head, StyleTag(styles))]
    ELSE soup

\* the insert that puts the base tag at the end of the head
InsertBase_appends(soup) ==
    IF soup.has_head THEN [soup EXCEPT !.head = Append(soup.head, BaseTag)]
    ELSE soup

\* if soup.head: soup.head.insert(0, base_tag)
InsertBase(soup) ==
    IF soup.has_head THEN [soup EXCEPT !.head = <<BaseTag>> \o soup.head]
    ELSE soup

\* crawl_page, from the parse of html_content to final_html
Materialize(html_content, styles, url) ==
    LET soup == InsertBase(AppendStyle(
                    RemoveStylesheetLinks(BeautifulSoup(html_content)), styles))
    IN  rewrite_internal_links(Str(soup), url)


(***************************************************************************)
(* The site being mirrored: what the rendering engine returns for a URL.   *)
(***************************************************************************)
RenderedPage(html, css) == [html |-> html, css |-> css]

\* the document of a page with a head section and one stylesheet
Doc(text, hrefs) ==
    <<HeadOpen, StylesheetLink(<<ORIGIN, SLASH, "site.css">>), HeadClose, Para(text)>>
        \o [i \in 1..Len(hrefs) |-> Anchor(hrefs[i])]

\* the document of a page whose markup has no head section
HeadlessDoc(text, hrefs) ==
    <<Para(text), NamedAnchor>> \o [i \in 1..Len(hrefs) |-> Anchor(hrefs[i])]

\* what the browser shows before any navigation succeeded
BlankPage == RenderedPage(<<HeadOpen, HeadClose>>, "")
\* what the server answers for a URL of the site that names no page
NotFoundPage == RenderedPage(Doc("not found", <<>>), "css-404")

Url(path) == BASE_URL \o path

\* section 8's scenario: an internal link with query and fragment, an
\* external link, and a link back
SiteExample ==
    (START_PAGE :> RenderedPage(
        Doc("home", << Url(<<SLASH, "about", QMARK, "ref=1", HASH, "top">>),
                       <<EXTERNAL, SLASH>> >>), "css-home"))
    @@ (Url(<<SLASH, "about">>) :> RenderedPage(
        Doc("about", << START_PAGE >>), "css-about"))

\* two pages link to a third, which links to itself and back to the start;
\* relative references, an absolute path, a fragment-only reference
SiteDiamond ==
    (START_PAGE :> RenderedPage(
        Doc("home", << <<"about">>, SITE_PATH \o <<SLASH, "team">> >>), "css-home"))
    @@ (Url(<<SLASH, "about">>) :> RenderedPage(
        Doc("about", << Url(<<SLASH, "news", QMARK, "ref=1">>) >>), "css-about"))
    @@ (Url(<<SLASH, "team">>) :> RenderedPage(
        Doc("team", << <<"news", HASH, "top">>,
                       <<EXTERNAL, SLASH, QMARK, "ref=1">> >>), "css-team"))
    @@ (Url(<<SLASH, "news">>) :> RenderedPage(
        HeadlessDoc("news", << <<HASH, "top">>, <<"home">> >>), "css-news"))

\* the site root and its /home page, a nested page and a page whose name
\* holds an underscore
SiteNested ==
    (START_PAGE :> RenderedPage(
        Doc("home", << BASE_URL, <<"a", SLASH, "b">>, <<"a", "_", "b">> >>), "css-home"))
    @@ (BASE_URL :> RenderedPage(
        Doc("root", << START_PAGE >>), "css-home"))
    @@ (Url(<<SLASH, "a", SLASH, "b">>) :> RenderedPage(
        Doc("nested", <<>>), "css-nested"))
    @@ (Url(<<SLASH, "a", "_", "b">>) :> RenderedPage(
        Doc("flat", <<>>), "css-flat"))

\* a site with a page named index, which links to a page that does not exist
SiteIndex ==
    (START_PAGE :> RenderedPage(
        Doc("home", << <<"index">>, <<EXTERNAL, SLASH, QMARK, "ref=1", HASH, "top">> >>),
        "css-home"))
    @@ (Url(<<SLASH, "index">>) :> RenderedPage(
        HeadlessDoc("index", << <<"home">>, <<"gone">> >>), "css-index"))

\* a single page with no link
SiteSingle ==
    (START_PAGE :> RenderedPage(Doc("home", <<>>), "css-home"))

\* a home page whose head holds an icon link, two stylesheet links and a
\* style block of its own, with a third stylesheet link in its body; and a
\* page with no head section that holds a stylesheet link and anchors, one
\* of them to a page the server does not hold
SiteStyled ==
    (START_PAGE :> RenderedPage(
        << HeadOpen, IconLink(<<ORIGIN, SLASH, "icon">>),
           StylesheetLink(<<ORIGIN, SLASH, "a.css">>), StyleTag("css-inline"),
           StylesheetLink(<<ORIGIN, SLASH, "b.css">>), HeadClose,
           Para("home"), StylesheetLink(<<ORIGIN, SLASH, "c.css">>),
           Anchor(<<"plain">>), Anchor(<<EXTERNAL, SLASH>>) >>, "css-home"))
    @@ (Url(<<SLASH, "plain">>) :> RenderedPage(
        << Para("plain"), StylesheetLink(<<ORIGIN, SLASH, "d.css">>), NamedAnchor,
           Anchor(<<"home", QMARK, "ref=1">>), Anchor(<<EXTERNAL, SLASH>>),
           Anchor(<<"more">>) >>,
        "css-plain"))

\* every link graph over three pages: each page links to any of the others
GraphPages == {START_PAGE, Url(<<SLASH, "about">>), Url(<<SLASH, "team">>)}

\* a set of URLs as a sequence, each URL once
RECURSIVE SeqOf(_)
SeqOf(S) ==
    IF S = {} THEN <<>>
    ELSE LET x == CHOOSE x \in S : TRUE IN <<x>> \o SeqOf(S \ {x})

GraphSites ==
    {[p \in GraphPages |-> RenderedPage(Doc("page", SeqOf(links[p])), "css")] :
        links \in {g \in [GraphPages -> SUBSET GraphPages] :
                      \A p \in GraphPages : p \notin g[p]}}

Sites == {SiteExample, SiteDiamond, SiteNested, SiteIndex, SiteSingle, SiteStyled}
             \cup GraphSites

\* os.rename replaces an existing destination on POSIX and raises
\* FileExistsError on Windows
Platforms == {"posix", "nt"}

(***************************************************************************)
(* State.                                                                  *)
(***************************************************************************)
VARIABLES
    site,           \* the pages the server holds: URL -> RenderedPage
    platform,       \* the operating system the script runs on
    visited,        \* crawl.py's global: the URLs already processed
    queue,          \* main's local: the pages to crawl
    pc,             \* where the script is
    url,            \* the URL main popped, crawl_page's argument
    contexts,       \* the browser contexts that are open
    page,           \* what the open page shows: "none", "full" or "blank"
    styles,         \* crawl_page's local: the css text captured
    html_content,   \* crawl_page's local: the markup captured
    fs,             \* the output directory: filename -> content
    runs,           \* how many times main has been called
    failures,       \* how many times page.goto has raised
    iterations,     \* passes through the while loop in this call of main
    log,            \* per URL crawled in this call of main: what was done
    dirs,           \* the output directory as each call of main left it
    written,        \* filename -> what this call of main last wrote to it
    crawled,        \* the URLs crawl_page has saved in this process
    call            \* specification SpecFn: one call of a pure function

vars == <<site, platform, visited, queue, pc, url, contexts, page, styles,
          html_content, fs, runs, failures, iterations, log, dirs, written,
          crawled, call>>

crawl_vars == <<site, platform, visited, queue, pc, url, contexts, page, styles,
                html_content, fs, runs, failures, iterations, log, dirs,
                written, crawled>>

HOME_HTML == <<"home", ".html">>
INDEX_HTML == <<"index", ".html">>
FALLBACK_WAIT == 5000
SETTLE_WAIT == 2000

\* f with key k set to v
Put(f, k, v) == [x \in DOMAIN f \cup {k} |-> IF x = k THEN v ELSE f[x]]

\* the function with the empty domain: an empty directory, an empty log
Empty == [x \in {} |-> {}]

\* what the log holds for a URL when crawl_page starts on it
NewEntry == [gotos |-> 0, raised |-> FALSE, waits |-> <<>>, captured |-> FALSE,
             html |-> <<>>, saved |-> FALSE, file |-> <<>>]

NoCall == [op |-> "none", current_url |-> <<>>, html |-> <<>>, ret |-> <<>>,
           links |-> {}]

\* the rendering engine: what the server answers for u
Render(u) == IF u \in DOMAIN site THEN site[u] ELSE NotFoundPage

\* the extractor that classifies the href as written, without resolving it
extract_internal_links_raw(html, current_url) ==
    LET hrefs == AnchorHrefs(html)
    IN  {full \in {SplitFirst(SplitFirst(hrefs[i], QMARK), HASH) : i \in 1..Len(hrefs)} :
            is_internal(full) /\ full \notin visited}

\* the extractor that returns the links already visited as well
extract_internal_links_all(html, current_url) ==
    LET hrefs == AnchorHrefs(html)
    IN  {full \in {Normalize(current_url, hrefs[i]) : i \in 1..Len(hrefs)} :
            is_internal(full)}

\* extract_internal_links(html, current_url); reads the global visited
extract_internal_links(html, current_url) ==
    LET hrefs == AnchorHrefs(html)
    IN  {full \in {Normalize(current_url, hrefs[i]) : i \in 1..Len(hrefs)} :
            is_internal(full) /\ full \notin visited}


(***************************************************************************)
(* main and crawl_page.  crawl_page is cut at its awaits; what runs        *)
(* between two awaits is one action.                                       *)
(***************************************************************************)
Init ==
    /\ site \in Sites
    /\ platform \in Platforms
    /\ visited = {}
    /\ queue = {}
    /\ pc = "idle"
    /\ url = <<>>
    /\ contexts = 0
    /\ page = "none"
    /\ styles = ""
    /\ html_content = <<>>
    /\ fs = Empty
    /\ runs = 0
    /\ failures = 0
    /\ iterations = 0
    /\ log = Empty
    /\ dirs = <<>>
    /\ written = Empty
    /\ crawled = {}
    /\ call = NoCall

\* main, up to the while loop: the queue holds the start page
EnterMain ==
    /\ queue' = {START_PAGE}
    /\ pc' = "loop"
    /\ runs' = runs + 1
    /\ iterations' = 0
    /\ log' = Empty
    /\ written' = Empty
    /\ UNCHANGED <<site, platform, url, contexts, page, styles, html_content,
                   fs, failures, dirs, call>>

\* py crawl.py: the module is loaded (visited = set()) and main is run
RunScript ==
    /\ pc \in {"idle", "done", "raised"}
    /\ runs < MaxRuns
    /\ visited' = {}
    /\ crawled' = {}
    /\ EnterMain

\* main is called again in the process that already ran it
MainAgain ==
    /\ pc \in {"done", "raised"}
    /\ runs < MaxRuns
    /\ visited' = visited
    /\ crawled' = crawled
    /\ EnterMain

\* the pop that leaves the URL in the queue
QueueAfterPop_keeps(q, u) == q

\* queue after url = queue.pop()
QueueAfterPop(q, u) == q \ {u}

\* the loop that never records the URL it processes
MarkVisited_forgets(v, u) == v

\* visited.add(url)
MarkVisited(v, u) == v \cup {u}

\* while queue: url = queue.pop(); if url in visited: continue; visited.add(url)
LoopPop ==
    /\ pc = "loop"
    /\ queue # {}
    /\ \E u \in queue :
        /\ queue' = QueueAfterPop(queue, u)
        /\ url' = u
        /\ iterations' = iterations + 1
        /\ IF u \in visited
           THEN visited' = visited /\ pc' = "loop"
           ELSE visited' = MarkVisited(visited, u) /\ pc' = "new_context"
    /\ UNCHANGED <<site, platform, contexts, page, styles, html_content, fs,
                   runs, failures, log, dirs, written,
                   crawled, call>>

\* context = await browser.new_context(...); page = await context.new_page()
NewContext ==
    /\ pc = "new_context"
    /\ contexts' = contexts + 1
    /\ page' = "blank"
    /\ log' = IF url \in DOMAIN log THEN log ELSE Put(log, url, NewEntry)
    /\ pc' = "goto"
    /\ UNCHANGED <<site, platform, visited, queue, url, styles, html_content,
                   fs, runs, failures, iterations, dirs, written,
                   crawled, call>>

\* await page.goto(url, ...) returns
GotoReturns ==
    /\ pc = "goto"
    /\ page' = "full"
    /\ log' = [log EXCEPT ![url].gotos = @ + 1]
    /\ pc' = "settle_wait"
    /\ UNCHANGED <<site, platform, visited, queue, url, contexts, styles,
                   html_content, fs, runs, failures, iterations, dirs, written,
                   crawled, call>>

\* page.goto called outside any try: the exception ends main
GotoRaises_fatal ==
    /\ pc = "goto"
    /\ failures < MaxFailures
    /\ page' \in {"full", "blank"}
    /\ failures' = failures + 1
    /\ log' = [log EXCEPT ![url].gotos = @ + 1, ![url].raised = TRUE]
    /\ pc' = "raised"
    /\ UNCHANGED <<site, platform, visited, queue, url, contexts, styles,
                   html_content, fs, runs, iterations, dirs, written,
                   crawled, call>>

\* await page.goto(url, ...) raises: a timeout leaves the page loaded, a
\* navigation error leaves it blank
GotoRaises ==
    /\ pc = "goto"
    /\ failures < MaxFailures
    /\ page' \in {"full", "blank"}
    /\ failures' = failures + 1
    /\ log' = [log EXCEPT ![url].gotos = @ + 1, ![url].raised = TRUE]
    /\ pc' = "fallback_wait"
    /\ UNCHANGED <<site, platform, visited, queue, url, contexts, styles,
                   html_content, fs, runs, iterations, dirs, written,
                   crawled, call>>

\* except Exception: await page.wait_for_timeout(5000)
FallbackWait ==
    /\ pc = "fallback_wait"
    /\ log' = [log EXCEPT ![url].waits = Append(@, FALLBACK_WAIT)]
    /\ pc' = "settle_wait"
    /\ UNCHANGED <<site, platform, visited, queue, url, contexts, page, styles,
                   html_content, fs, runs, failures, iterations, dirs, written,
                   crawled, call>>

\* await page.wait_for_timeout(2000)
SettleWait ==
    /\ pc = "settle_wait"
    /\ log' = [log EXCEPT ![url].waits = Append(@, SETTLE_WAIT)]
    /\ pc' = "evaluate"
    /\ UNCHANGED <<site, platform, visited, queue, url, contexts, page, styles,
                   html_content, fs, runs, failures, iterations, dirs, written,
                   crawled, call>>

\* what the open page holds
Shown == IF page = "full" THEN Render(url) ELSE BlankPage

\* styles = await page.evaluate(...)
Evaluate ==
    /\ pc = "evaluate"
    /\ styles' = Shown.css
    /\ pc' = "content"
    /\ UNCHANGED <<site, platform, visited, queue, url, contexts, page,
                   html_content, fs, runs, failures, iterations, log, dirs, written,
                   crawled, call>>

\* html_content = await page.content()
Content ==
    /\ pc = "content"
    /\ html_content' = Shown.html
    /\ log' = [log EXCEPT ![url].captured = TRUE, ![url].html = Shown.html]
    /\ pc' = "close"
    /\ UNCHANGED <<site, platform, visited, queue, url, contexts, page, styles,
                   fs, runs, failures, iterations, dirs, written,
                   crawled, call>>

\* crawl_page going on without closing its context
CloseContext_leaks ==
    /\ pc = "close"
    /\ contexts' = contexts
    /\ page' = "none"
    /\ pc' = "save"
    /\ UNCHANGED <<site, platform, visited, queue, url, styles, html_content,
                   fs, runs, failures, iterations, log, dirs, written,
                   crawled, call>>

\* await context.close()
CloseContext ==
    /\ pc = "close"
    /\ contexts' = contexts - 1
    /\ page' = "none"
    /\ pc' = "save"
    /\ UNCHANGED <<site, platform, visited, queue, url, styles, html_content,
                   fs, runs, failures, iterations, log, dirs, written,
                   crawled, call>>

\* for link in new_links: if link not in visited: queue.add(link)
QueueWithLinks(q, new_links) == q \cup {link \in new_links : link \notin visited}

\* with open(filepath, "w") as f: f.write(final_html)
WriteFile(dir, filename, content) == Put(dir, filename, content)

\* the rest of crawl_page (extract, materialize, save) and main's loop over
\* the links it returns
SavePage ==
    /\ pc = "save"
    /\ LET filename == url_to_filename(url)
           new_links == extract_internal_links(html_content, url)
           final_html == Materialize(html_content, styles, url)
       IN  /\ fs' = WriteFile(fs, filename, final_html)
           /\ log' = [log EXCEPT ![url].saved = TRUE, ![url].file = filename]
           /\ written' = Put(written, filename, final_html)
           /\ queue' = QueueWithLinks(queue, new_links)
    /\ crawled' = crawled \cup {url}
    /\ pc' = "loop"
    /\ UNCHANGED <<site, platform, visited, url, contexts, page, styles,
                   html_content, runs, failures, iterations, dirs, call>>

\* the while loop ends; await browser.close()
LoopExit ==
    /\ pc = "loop"
    /\ queue = {}
    /\ pc' = "rename"
    /\ UNCHANGED <<site, platform, visited, queue, url, contexts, page, styles,
                   html_content, fs, runs, failures, iterations, log, dirs, written,
                   crawled, call>>

\* a copy in place of a rename: the source stays
os_rename_copies(dir, src, dst) ==
    [f \in DOMAIN dir \cup {dst} |-> IF f = dst THEN dir[src] ELSE dir[f]]

\* os.rename(src, dst) when it succeeds
os_rename(dir, src, dst) ==
    [f \in (DOMAIN dir \ {src}) \cup {dst} |-> IF f = dst THEN dir[src] ELSE dir[f]]

\* os.rename(src, dst) raises FileExistsError
RenameRaises(dir, dst) == platform = "nt" /\ dst \in DOMAIN dir

\* if os.path.exists(home): os.rename(home, index); main returns or raises
Rename ==
    /\ pc = "rename"
    /\ IF HOME_HTML \in DOMAIN fs
       THEN IF RenameRaises(fs, INDEX_HTML)
            THEN fs' = fs /\ pc' = "raised"
            ELSE fs' = os_rename(fs, HOME_HTML, INDEX_HTML) /\ pc' = "done"
       ELSE fs' = fs /\ pc' = "done"
    /\ dirs' = Append(dirs, fs')
    /\ UNCHANGED <<site, platform, visited, queue, url, contexts, page, styles,
                   html_content, runs, failures, iterations, log, written,
                   crawled, call>>

Next ==
    \/ RunScript
    \/ MainAgain
    \/ LoopPop
    \/ NewContext
    \/ GotoReturns
    \/ GotoRaises
    \/ FallbackWait
    \/ SettleWait
    \/ Evaluate
    \/ Content
    \/ CloseContext
    \/ SavePage
    \/ LoopExit
    \/ Rename

Spec == Init /\ [][Next]_vars


(***************************************************************************)
(* Properties of a crawl (specification Spec).                             *)
(***************************************************************************)
\* the internal Canonical URLs that the anchors of html name, whether
\* visited or not
InternalLinks(html, current_url) ==
    LET hrefs == AnchorHrefs(html)
    IN  {full \in {Normalize(current_url, hrefs[i]) : i \in 1..Len(hrefs)} :
            StartsWith(full, BASE_URL)}

\* the links on the page the server holds for u
ServedLinks(u) == InternalLinks(Render(u).html, u)

\* the least set that holds seen and the served links of each of its
\* members, given that only the links of frontier are still to be followed
RECURSIVE ServedClosure(_, _)
ServedClosure(seen, frontier) ==
    IF frontier = {} THEN seen
    ELSE LET new == (UNION {ServedLinks(u) : u \in frontier}) \ seen
         IN  ServedClosure(seen \cup new, new)

\* the internal Canonical URLs reachable from the start page in the site
ReachablePages == ServedClosure({START_PAGE}, {START_PAGE})

\* the links on the markup that this call of main captured for u
CapturedLinks(u) ==
    IF u \in DOMAIN log /\ log[u].captured THEN InternalLinks(log[u].html, u) ELSE {}

\* the same closure over the captured links
RECURSIVE CapturedClosure(_, _)
CapturedClosure(seen, frontier) ==
    IF frontier = {} THEN seen
    ELSE LET new == (UNION {CapturedLinks(u) : u \in frontier}) \ seen
         IN  CapturedClosure(seen \cup new, new)

\* the URLs reachable from the start page through anchors on fetched pages
DiscoveredPages == CapturedClosure({START_PAGE}, {START_PAGE})

\* the while loop of main has ended
LoopEnded == pc \in {"rename", "done", "raised"}

\* C1: within one call of main no URL is passed to page.goto more than
\* once, whichever pages link to it and in whatever order the queue is popped.
C1_AtMostOnce == \A u \in DOMAIN log : log[u].gotos <= 1

\* C1 witness: the run is over and a page that two other fetched pages and
\* the page itself link to was fetched once.
C1_Witness ==
    /\ pc = "done"
    /\ \E u \in DOMAIN log :
        /\ log[u].gotos = 1
        /\ u \in CapturedLinks(u)
        /\ Cardinality({v \in DOMAIN log : v # u /\ u \in CapturedLinks(v)}) >= 2

\* C2: the passes made through the while loop plus the URLs still queued
\* never exceed the number N of internal Canonical URLs reachable from the
\* start page, so the loop ends after at most N passes.
C2_TerminatesWithinN ==
    iterations + Cardinality(queue) <= Cardinality(ReachablePages)

\* C2 witness: the loop ended after exactly N passes on a site of three or
\* more reachable pages.
C2_Witness ==
    /\ pc = "rename"
    /\ queue = {}
    /\ iterations = Cardinality(ReachablePages)
    /\ iterations >= 3

\* C3: when the loop has ended, every internal Canonical URL reachable from
\* the start page through anchors of fetched pages is in visited and has been
\* fetched and saved by crawl_page.
C3_Complete ==
    LoopEnded => \A u \in DiscoveredPages : u \in visited /\ u \in crawled

\* C3 witness: the loop ended with four pages discovered through anchors,
\* one of them only through relative references.
C3_Witness ==
    /\ LoopEnded
    /\ Cardinality(DiscoveredPages) >= 4
    /\ \A u \in DiscoveredPages : u \in DOMAIN log /\ log[u].saved

\* C4 (as claimed): two distinct URLs saved in one call of main are saved
\* under distinct filenames, so as many files are written as URLs are saved.
C4_OneFilePerPage ==
    /\ \A u, v \in DOMAIN log :
        (u # v /\ log[u].saved /\ log[v].saved) => log[u].file # log[v].file
    /\ Cardinality(DOMAIN written) = Cardinality({u \in DOMAIN log : log[u].saved})


\* crawl_page is not running on u
CrawlPageOver(u) == u # url \/ pc \in {"loop", "rename", "done", "raised"}

\* C8: for a URL whose page.goto raised, goto was called once; and once
\* crawl_page is over for it, the fallback wait and then the settle wait
\* were made, the markup was captured and the file of the URL was written;
\* the loop ends only when the queue is empty.
C8_FetchFailureNotFatal ==
    /\ \A u \in DOMAIN log :
        log[u].raised =>
            /\ log[u].gotos = 1
            /\ CrawlPageOver(u) =>
                /\ log[u].waits = <<FALLBACK_WAIT, SETTLE_WAIT>>
                /\ log[u].captured
                /\ log[u].saved
                /\ log[u].file \in DOMAIN written
    /\ LoopEnded => queue = {}

\* C8 witness: the goto of one URL raised, its file was written, and the
\* loop has gone on to fetch another URL.
C8_Witness ==
    /\ pc = "goto"
    /\ \E u \in DOMAIN log :
        /\ u # url
        /\ log[u].raised
        /\ log[u].gotos = 1
        /\ log[u].saved
        /\ log[u].file \in DOMAIN fs

\* C9: when main completes, if this call of main wrote home.html then
\* home.html is gone and index.html holds what was last written to it;
\* otherwise the rename step leaves the output directory as it was.
C9_HomeRenamedToIndex ==
    [][ (pc = "rename" /\ pc' = "done") =>
            IF HOME_HTML \in DOMAIN written
            THEN /\ HOME_HTML \notin DOMAIN fs'
                 /\ INDEX_HTML \in DOMAIN fs'
                 /\ fs'[INDEX_HTML] = written[HOME_HTML]
            ELSE fs' = fs ]_vars

\* C9 witness: main has completed, it wrote home.html and other files, and
\* index.html now holds what it wrote to home.html.
C9_Witness ==
    /\ pc = "done"
    /\ HOME_HTML \in DOMAIN written
    /\ Cardinality(DOMAIN written) >= 2
    /\ HOME_HTML \notin DOMAIN fs
    /\ INDEX_HTML \in DOMAIN fs
    /\ fs[INDEX_HTML] = written[HOME_HTML]

\* C10 (as claimed): when main has run twice and no fetch failed, the second
\* call left the output directory as the first call had left it.
C10_RerunIdempotent ==
    (Len(dirs) >= 2 /\ failures = 0) => dirs[2] = dirs[1]

\* main has reached its while loop and has not yet popped a URL
AtLoopStart == pc = "loop" /\ iterations = 0

\* C11 (as claimed): every call of main reaches its loop with visited empty
\* and the queue holding only the start page, and when its loop has ended
\* the start page and every page reachable from it have been passed to
\* page.goto in that call.
C11_FullRecrawl ==
    /\ AtLoopStart => (visited = {} /\ queue = {START_PAGE})
    /\ LoopEnded =>
        \A u \in {START_PAGE} \cup DiscoveredPages :
            u \in DOMAIN log /\ log[u].gotos >= 1

(***************************************************************************)
(* Specification SpecFn: one call of a pure function on a generated input. *)
(* The crawl does not run: its variables keep their initial values.        *)
(***************************************************************************)
\* the documents a generated href is placed in: with a head section, with
\* none (and a stray end tag), and with a head section that is never closed
GenDocs(href) ==
    { Doc("text", <<href, START_PAGE \o <<HASH, "top">> >>),
      <<Para("text"), HeadClose, NamedAnchor, Anchor(href)>>,
      <<Anchor(<<EXTERNAL, SLASH>>), HeadOpen, IconLink(<<ORIGIN, SLASH, "icon">>),
        Anchor(href), Para("text")>> }

UrlInput(u) ==
    [op |-> "url", current_url |-> u, html |-> <<>>, ret |-> <<>>, links |-> {}]
HtmlInput(html, current_url) ==
    [op |-> "html", current_url |-> current_url, html |-> html, ret |-> <<>>,
     links |-> {}]
LinksInput(html, current_url) ==
    [op |-> "links", current_url |-> current_url, html |-> html, ret |-> <<>>,
     links |-> {}]

\* the values of the global visited and of main's queue under which
\* extract_internal_links is called
GenVisitedQueues ==
    { <<{}, {START_PAGE}>>,
      <<{START_PAGE}, {Url(<<SLASH, "a">>)}>>,
      <<{START_PAGE, Url(<<SLASH, "a">>)}, {}>> }

InitFn ==
    /\ call \in {UrlInput(u) : u \in GenInternalUrls}
           \cup {HtmlInput(html, base) :
                    <<html, base>> \in (UNION {GenDocs(h) : h \in GenHrefs}) \X GenBases}
           \cup {LinksInput(html, base) :
                    <<html, base>> \in (UNION {GenDocs(h) : h \in GenHrefs}) \X GenBases}
    /\ \E vq \in IF call.op = "links" THEN GenVisitedQueues ELSE {<<{}, {}>>} :
        /\ visited = vq[1]
        /\ queue = vq[2]
    /\ site = SiteSingle
    /\ platform = "posix"
    /\ pc = "idle"
    /\ url = <<>>
    /\ contexts = 0
    /\ page = "none"
    /\ styles = ""
    /\ html_content = <<>>
    /\ fs = Empty
    /\ runs = 0
    /\ failures = 0
    /\ iterations = 0
    /\ log = Empty
    /\ dirs = <<>>
    /\ written = Empty
    /\ crawled = {}

\* filename = url_to_filename(url)
CallUrlToFilename ==
    /\ call.op = "url"
    /\ call' = [call EXCEPT !.op = "url_to_filename",
                            !.ret = url_to_filename(call.current_url)]
    /\ UNCHANGED crawl_vars

\* final_html = rewrite_internal_links(html, url)
CallRewriteInternalLinks ==
    /\ call.op = "html"
    /\ call' = [call EXCEPT !.op = "rewrite_internal_links",
                            !.ret = rewrite_internal_links(call.html, call.current_url)]
    /\ UNCHANGED crawl_vars

\* new_links = extract_internal_links(html_content, url)
CallExtractInternalLinks ==
    /\ call.op = "links"
    /\ call' = [call EXCEPT !.op = "extract_internal_links",
                            !.links = extract_internal_links(call.html, call.current_url)]
    /\ UNCHANGED crawl_vars

NextFn ==
    \/ CallUrlToFilename
    \/ CallRewriteInternalLinks
    \/ CallExtractInternalLinks

SpecFn == InitFn /\ [][NextFn]_vars

(***************************************************************************)
(* Properties of the pure functions (specification SpecFn).                *)
(***************************************************************************)
\* rewrite_internal_links has returned
Rewritten == call.op = "rewrite_internal_links"

\* the hrefs of the anchors of the input, and of the output
HrefsIn == AnchorHrefs(call.html)
HrefsOut == AnchorHrefs(call.ret)

\* the i-th anchor of the input resolved against the fetch URL, and the
\* same with query string and fragment stripped
AbsoluteForm(i) == urljoin(call.current_url, HrefsIn[i])
NormalizedForm(i) ==
    SplitFirst(SplitFirst(AbsoluteForm(i), QMARK), HASH)

\* the i-th anchor of the input names a page of the site
InternalAnchor(i) == StartsWith(NormalizedForm(i), BASE_URL)

\* C5: in the output of rewrite_internal_links every anchor whose normalized
\* target is internal has the Local Filename of that target as its href, and
\* that value is neither the absolute nor the normalized form of the href.
C5_InternalAnchorsLocalized ==
    Rewritten =>
        /\ Len(HrefsOut) = Len(HrefsIn)
        /\ \A i \in 1..Len(HrefsIn) :
            InternalAnchor(i) =>
                /\ HrefsOut[i] = url_to_filename(NormalizedForm(i))
                /\ HrefsOut[i] # AbsoluteForm(i)
                /\ HrefsOut[i] # NormalizedForm(i)

\* C5 witness: a relative href with a query string that resolves to a page
\* of the site has been rewritten to a filename.
C5_Witness ==
    /\ Rewritten
    /\ \E i \in 1..Len(HrefsIn) :
        /\ ~IsAbsolute(HrefsIn[i])
        /\ Contains(HrefsIn[i], QMARK)
        /\ InternalAnchor(i)
        /\ HrefsOut[i] = <<"a", ".html">>

\* C6 (as claimed): the href of every anchor whose normalized target is not
\* internal equals, in the output, the normalized form of the href.
C6_ExternalEqualsNormalized ==
    Rewritten =>
        /\ Len(HrefsOut) = Len(HrefsIn)
        /\ \A i \in 1..Len(HrefsIn) :
            ~InternalAnchor(i) => HrefsOut[i] = NormalizedForm(i)

\* C6 (amended): the href of every anchor whose normalized target is not
\* internal is, in the output, the href as it was written in the input.
C6_ExternalUntouched ==
    Rewritten =>
        /\ Len(HrefsOut) = Len(HrefsIn)
        /\ \A i \in 1..Len(HrefsIn) :
            ~InternalAnchor(i) => HrefsOut[i] = HrefsIn[i]

\* C6 witness: an external href with a query string and a fragment, which
\* differs from its normalized form, has come through unchanged.
C6_Witness ==
    /\ Rewritten
    /\ \E i \in 1..Len(HrefsIn) :
        /\ ~InternalAnchor(i)
        /\ HrefsIn[i] = <<EXTERNAL, SLASH, QMARK, "ref=1", HASH, "top">>
        /\ HrefsOut[i] = HrefsIn[i]
        /\ HrefsOut[i] # NormalizedForm(i)

\* the reference mapping of C7: the path with its leading site-root prefix
\* removed, slashes trimmed, "/" replaced by "_", "home" when empty, ".html"
ReferenceFilename(u) ==
    LET path == UrlPath(u)
        residual == IF StartsWith(path, SITE_PATH) THEN Drop(path, Len(SITE_PATH))
                    ELSE path
        name == Replace(Strip(residual, SLASH), <<SLASH>>, <<"_">>)
    IN  (IF name = <<>> THEN <<"home">> ELSE name) \o <<".html">>

\* C7 (as claimed): url_to_filename of an internal Canonical URL is the
\* reference mapping of that URL.
C7_FilenameIsReference ==
    call.op = "url_to_filename" => call.ret = ReferenceFilename(call.current_url)

\* the input and the output of rewrite_internal_links, parsed
SoupIn == BeautifulSoup(call.html)
SoupOut == BeautifulSoup(call.ret)

\* the normalized target of the href of anchor e names a page of the site
TargetInternal(e) ==
    StartsWith(SplitFirst(SplitFirst(urljoin(call.current_url, e.href), QMARK), HASH),
               BASE_URL)

\* element f of the output is element e of the input, but for the href when
\* e is an anchor with an internal target
SameButHref(e, f) ==
    IF IsAnchorWithHref(e) /\ TargetInternal(e)
    THEN f = [e EXCEPT !.href = f.href]
    ELSE f = e

\* every element of outs is the element of ins at the same place, but for
\* the href of internal anchors
SameButHrefs(ins, outs) ==
    /\ Len(outs) = Len(ins)
    /\ \A i \in 1..Len(ins) : SameButHref(ins[i], outs[i])

\* C12: the output of rewrite_internal_links parses to the document the
\* input parses to, with the same elements in the same order before, inside
\* and after the head section, each with the same tag, attributes and text;
\* only the href of anchors whose normalized target is internal may differ.
C12_RewriterFrame ==
    Rewritten =>
        /\ SoupOut.has_head = SoupIn.has_head
        /\ SameButHrefs(SoupIn.before, SoupOut.before)
        /\ SameButHrefs(SoupIn.head, SoupOut.head)
        /\ SameButHrefs(SoupIn.after, SoupOut.after)

\* C12 witness: a document with a stylesheet link in its head, a paragraph,
\* an external anchor and an internal anchor has been rewritten; only the
\* href of the internal anchor has changed.
C12_Witness ==
    /\ Rewritten
    /\ \E e \in {SoupIn.head[i] : i \in 1..Len(SoupIn.head)} : IsStylesheetLink(e)
    /\ \E i \in 1..Len(SoupIn.after) : SoupIn.after[i].tag = "p"
    /\ \E i \in 1..Len(SoupIn.after) :
        /\ IsAnchorWithHref(SoupIn.after[i])
        /\ ~TargetInternal(SoupIn.after[i])
        /\ SoupOut.after[i] = SoupIn.after[i]
    /\ \E i \in 1..Len(SoupIn.after) :
        /\ IsAnchorWithHref(SoupIn.after[i])
        /\ TargetInternal(SoupIn.after[i])
        /\ SoupOut.after[i].href # SoupIn.after[i].href

\* the href resolved against the fetch URL, without its query string and
\* its fragment: scheme, network location and path
StrippedTarget(current_url, href) ==
    LET full == urljoin(current_url, href)
    IN  UrlOrigin(full) \o UrlPath(full)

\* the stripped targets of the anchors of the document handed to
\* extract_internal_links
AnchorTargets ==
    {StrippedTarget(call.current_url, HrefsIn[i]) : i \in 1..Len(HrefsIn)}

\* C13: the step in which extract_internal_links returns yields exactly
\* the stripped targets of the anchors that start with BASE_URL and are not
\* in visited as the call finds it, and leaves visited and the queue as
\* they were.
C13_ExtractorFrame ==
    [][ (call.op = "links" /\ call'.op = "extract_internal_links") =>
            /\ call'.links =
                    {full \in AnchorTargets : StartsWith(full, BASE_URL) /\ full \notin visited}
            /\ visited' = visited
            /\ queue' = queue ]_vars

\* C13 witness: extract_internal_links has returned a link, has left out
\* an internal target that is in visited, and visited and the queue are the
\* non-empty sets the call was made under.
C13_Witness ==
    /\ call.op = "extract_internal_links"
    /\ call.links # {}
    /\ \E full \in AnchorTargets : StartsWith(full, BASE_URL) /\ full \in visited
    /\ call.links \cap visited = {}
    /\ visited = {START_PAGE}
    /\ queue = {Url(<<SLASH, "a">>)}

(***************************************************************************)
(* Properties of the files a crawl writes (specification Spec).            *)
(***************************************************************************)
\* crawl_page writes the file of url in this step
Saves == pc = "save" /\ pc' = "loop"

\* element e with its href replaced by the Local Filename of its target
\* when it is an anchor whose target, resolved against base, is internal
Localized(e, base) ==
    IF e.tag = "a" /\ e.has_href /\ StartsWith(StrippedTarget(base, e.href), BASE_URL)
    THEN [e EXCEPT !.href = url_to_filename(StrippedTarget(base, e.href))]
    ELSE e

\* elems without its stylesheet links and with its internal anchors
\* localized against base
SavedForm(elems, base) ==
    LET kept == FilterSeq(LAMBDA e : ~(e.tag = "link" /\ e.rel = "stylesheet"), elems)
    IN  [i \in 1..Len(kept) |-> Localized(kept[i], base)]

\* how many elements of elems are style blocks
StyleBlocks(elems) == Cardinality({i \in 1..Len(elems) : elems[i].tag = "style"})

\* C14: when crawl_page writes the file of a page whose captured markup has
\* a head section, the file holds no stylesheet link, its head starts with
\* the base tag and ends with a style block holding the captured css, the
\* file holds one style block more than the captured markup, and everything
\* else is the captured markup with its internal anchors localized against
\* the URL that was fetched.
C14_MaterializedStructure ==
    [][ (Saves /\ BeautifulSoup(html_content).has_head) =>
            LET captured == BeautifulSoup(html_content)
                saved == BeautifulSoup(fs'[url_to_filename(url)])
                all == Descendants(saved)
            IN  /\ saved.has_head
                /\ \A i \in 1..Len(all) : ~IsStylesheetLink(all[i])
                /\ Len(saved.head) >= 2
                /\ saved.head[1] = BaseTag
                /\ saved.head[Len(saved.head)] = StyleTag(styles)
                /\ StyleBlocks(all) = StyleBlocks(Descendants(captured)) + 1
                /\ saved.before = SavedForm(captured.before, url)
                /\ SubSeq(saved.head, 2, Len(saved.head) - 1) =
                        SavedForm(captured.head, url)
                /\ saved.after = SavedForm(captured.after, url) ]_vars

\* C14 witness: the file of the home page, whose head held an icon link,
\* two stylesheet links and a style block, has been written: its head is
\* the base tag, the icon link, the page's style block and the added style
\* block, and its anchor to the page plain names plain.html.
C14_Witness ==
    /\ pc = "loop"
    /\ url = START_PAGE
    /\ url \in DOMAIN log /\ log[url].saved
    /\ Len(BeautifulSoup(log[url].html).head) = 4
    /\ HOME_HTML \in DOMAIN fs
    /\ BeautifulSoup(fs[HOME_HTML]).head =
            << BaseTag, IconLink(<<ORIGIN, SLASH, "icon">>), StyleTag("css-inline"),
               StyleTag("css-home") >>
    /\ \E i \in 1..Len(fs[HOME_HTML]) : fs[HOME_HTML][i] = Anchor(<<"plain", ".html">>)

\* the markup captured for u has no head section
Headless(u) ==
    u \in DOMAIN log /\ log[u].captured /\ ~BeautifulSoup(log[u].html).has_head

\* crawl_page has written a file for every headless page it is over with,
\* and main has raised only in its rename step
HeadlessNotFatal ==
    /\ \A u \in DOMAIN log :
        (Headless(u) /\ CrawlPageOver(u)) =>
            log[u].saved /\ log[u].file \in DOMAIN written
    /\ (pc = "raised") => queue = {}

\* C15: when crawl_page writes the file of a page whose captured markup has
\* no head section, the file has no head, no base tag and no style block
\* beyond those captured, holds no stylesheet link, and is the captured
\* markup with its internal anchors localized; the file is written, no
\* exception ends the loop and the loop goes on until the queue is empty.
C15_MissingHeadNoOp ==
    [][ /\ (Saves /\ ~BeautifulSoup(html_content).has_head) =>
            LET captured == BeautifulSoup(html_content)
                saved == BeautifulSoup(fs'[url_to_filename(url)])
                all == Descendants(saved)
            IN  /\ ~saved.has_head
                /\ \A i \in 1..Len(all) : all[i] # BaseTag /\ ~IsStylesheetLink(all[i])
                /\ StyleBlocks(all) = StyleBlocks(Descendants(captured))
                /\ all = SavedForm(Descendants(captured), url)
                /\ log'[url].saved
                /\ written'[url_to_filename(url)] = fs'[url_to_filename(url)]
        /\ HeadlessNotFatal' ]_vars

\* C15 witness: the file of a page with no head section, which held a
\* stylesheet link and an internal anchor, was written with neither a base
\* tag nor a style block, and the loop has gone on to fetch another URL.
C15_Witness ==
    /\ pc = "goto"
    /\ \E u \in DOMAIN log :
        /\ u # url
        /\ Headless(u)
        /\ \E i \in 1..Len(log[u].html) : IsStylesheetLink(log[u].html[i])
        /\ log[u].saved
        /\ log[u].file \in DOMAIN fs
        /\ fs[log[u].file] =
                << Para("plain"), NamedAnchor, Anchor(<<"home", ".html">>),
                   Anchor(<<EXTERNAL, SLASH>>), Anchor(<<"more", ".html">>) >>

\* crawl_page holds an open context at these points
InContext == pc \in {"goto", "fallback_wait", "settle_wait", "evaluate", "content", "close"}

\* C16: at most one browser context is open, and only while crawl_page is
\* between new_context and close; and whenever main is at its loop, or
\* crawl_page is working on a URL, the file of every other URL that
\* crawl_page was called on in this call of main has been written.
C16_Sequential ==
    /\ contexts \in {0, 1}
    /\ (contexts = 1) <=> InContext
    /\ \A u \in DOMAIN log :
        (u # url \/ pc \in {"loop", "new_context"}) =>
            /\ log[u].saved
            /\ log[u].file \in DOMAIN written

\* C16 witness: a fetch is under way in the one open context, and the files
\* of the two URLs fetched before it are written.
C16_Witness ==
    /\ pc = "goto"
    /\ contexts = 1
    /\ url \in DOMAIN log /\ ~log[url].saved
    /\ Cardinality({u \in DOMAIN log : u # url /\ log[u].saved}) = 2

\* C17 (as claimed): whenever main evaluates its loop condition no URL is
\* both in the queue and in visited; a URL that crawl_page is fetching is in
\* visited; and every pass through the loop has called crawl_page, that
\* is, no pass has taken the branch 'if url in visited: continue'.
C17_FrontierVisitedDisjoint ==
    /\ pc = "loop" => queue \cap visited = {}
    /\ InContext => url \in visited
    /\ pc = "loop" => iterations = Cardinality(DOMAIN log)

\* u starts with BASE_URL and holds neither a query string nor a fragment
Canonical(u) ==
    /\ StartsWith(u, BASE_URL)
    /\ ~Contains(u, QMARK)
    /\ ~Contains(u, HASH)

\* the anchors of the markup captured for u that have an href
CapturedAnchors(u) ==
    FilterSeq(LAMBDA e : e.tag = "a" /\ e.has_href,
              Descendants(BeautifulSoup(log[u].html)))

\* the anchors of the file just written for url
SavedAnchors ==
    FilterSeq(LAMBDA e : e.tag = "a" /\ e.has_href,
              Descendants(BeautifulSoup(written[log[url].file])))

\* C18: every URL in the queue or in visited starts with BASE_URL and
\* holds no "?" and no "#"; every URL handed to crawl_page, and so to
\* page.goto and to url_to_filename, is such a URL; and in the file
\* crawl_page has just written an anchor whose target does not start with
\* BASE_URL keeps its href, so that rewrite_internal_links applied
\* url_to_filename to internal targets only.
C18_NeverLeavesSite ==
    /\ \A u \in queue \cup visited : Canonical(u)
    /\ \A u \in DOMAIN log : Canonical(u)
    /\ pc \notin {"idle", "loop", "rename", "done", "raised"} => Canonical(url)
    /\ (pc = "loop" /\ url \in DOMAIN log /\ log[url].saved) =>
            /\ Len(SavedAnchors) = Len(CapturedAnchors(url))
            /\ \A i \in 1..Len(SavedAnchors) :
                ~StartsWith(StrippedTarget(url, CapturedAnchors(url)[i].href), BASE_URL)
                    => SavedAnchors[i] = CapturedAnchors(url)[i]

\* C18 witness: a page with an external anchor and a page with an anchor
\* that carries a query string have been fetched; the target of the second,
\* stripped, is in the queue, and the target of the first is neither queued
\* nor visited.
C18_Witness ==
    /\ pc = "loop"
    /\ \E u \in DOMAIN log : \E i \in 1..Len(CapturedAnchors(u)) :
        /\ Contains(CapturedAnchors(u)[i].href, QMARK)
        /\ StartsWith(StrippedTarget(u, CapturedAnchors(u)[i].href), BASE_URL)
        /\ StrippedTarget(u, CapturedAnchors(u)[i].href) \in queue
    /\ \E u \in DOMAIN log : \E i \in 1..Len(CapturedAnchors(u)) :
        /\ ~StartsWith(StrippedTarget(u, CapturedAnchors(u)[i].href), BASE_URL)
        /\ StrippedTarget(u, CapturedAnchors(u)[i].href) \notin queue \cup visited

\* the filenames crawl_page wrote in this call of main
SavedFiles == {log[t].file : t \in {v \in DOMAIN log : log[v].saved}}

\* C19 (as claimed): when main has completed, rename included, every
\* anchor in every file of the output directory whose href is the Local
\* Filename of a page fetched in this call of main names a file that is in
\* the output directory.
C19_LocalLinksResolve ==
    pc = "done" =>
        \A f \in DOMAIN fs : \A i \in 1..Len(fs[f]) :
            (fs[f][i].tag = "a" /\ fs[f][i].has_href /\ fs[f][i].href \in SavedFiles)
                => fs[f][i].href \in DOMAIN fs

=============================================================================
